---- MODULE Spec2Model ----
(***************************************************************************)
(* A model of the bounded TTL cache of src/lib/cache.ts (class LRUCache)   *)
(* of the route handlers that use its process-wide instance, and of the     *)
(* Home page that calls the routes.                                        *)
(*                                                                         *)
(* Strings are sequences of one-character strings, so that the empty       *)
(* string is <<>> and toLowerCase is computed character by character.      *)
(* A JavaScript Map is a sequence of [key, value, expiry] records with     *)
(* pairwise distinct keys, in insertion order.                             *)
(***************************************************************************)
EXTENDS Integers, Sequences, FiniteSets, Bags, TLC

\* ------------------------------------------------------------------------
\* Bounds of the model
\* ------------------------------------------------------------------------
MaxCapacity == 2
MaxTtl == 1
MaxTime == 2
MaxHandlers == 2
MaxMoves == 21
MaxNames == 10
MaxLookups == 2
MaxTicks == 3
TimeStep == 250
LoadTime == 1000

\* ------------------------------------------------------------------------
\* Values of the model
\* ------------------------------------------------------------------------
\* The keys the direct callers of the cache use: "", "a", "b".
CacheKeys == { <<>>, <<"a">>, <<"b">> }

\* The opaque payloads the direct callers store.
CacheValues == { [kind |-> "opaque", id |-> 1], [kind |-> "opaque", id |-> 2] }

\* JavaScript null (the result of a miss) and undefined.
Null == [kind |-> "null"]
Undefined == <<"#undefined">>

\* JavaScript truthiness of a string-or-undefined: "" and undefined are falsy.
Truthy(x) == x # Undefined /\ x # <<>>

VARIABLES
  cache,       \* LRUCache.cache: the Map, as a sequence in insertion order
  maxEntries,  \* LRUCache.maxEntries
  ttl,         \* LRUCache.ttl
  now,         \* the value Date.now() returns
  touched,     \* history: keys in the order of their last touch, latest last
  stored,      \* history: for each resident key, the value and time of its last set
  last,        \* history: the last cache operation, with the Map before it
  scn,         \* history: progress of the set(A), set(B), get(A), set(C) scenario
  req,         \* the route handlers in flight: a bag, one record per request
  fin,         \* history: the request the latest step completed, if any
  listed,      \* history: a suggestions request has stored the name list
  variant,     \* which Home component is mounted
  searchTerm,  \* Home state: searchTerm
  pokemon,     \* Home state: pokemon
  loading,     \* Home state: loading
  error,       \* Home state: error
  isCached,    \* Home state: isCached
  allNames,    \* Home state: allNames
  suggestions, \* Home state: suggestions
  debounceTimer,   \* Home ref: the timer of debounceTimer.current, if pending
  lastSearchTime,  \* Home ref: lastSearchTime.current
  clock,       \* the value Date.now() returns in the browser
  lookups,     \* the calls of fetchPokemon that await their response: a bag
  namesReq,    \* the position of loadNames
  prevStart,   \* history: the time the latest lookup request started, or 0
  look         \* history: what the latest step did with a lookup, if anything

cacheVars == <<cache, maxEntries, ttl, now>>
histVars == <<touched, stored, last, scn>>
routeVars == <<req, fin, listed>>
homeVars == <<searchTerm, pokemon, loading, error, isCached, allNames, suggestions>>
pageVars == <<variant, homeVars, debounceTimer, lastSearchTime, clock, lookups,
              namesReq, prevStart, look>>
serverVars == <<cacheVars, histVars, routeVars>>
vars == <<cache, maxEntries, ttl, now, touched, stored, last, scn, req, fin, listed,
          pageVars>>

\* ------------------------------------------------------------------------
\* Map primitives
\* ------------------------------------------------------------------------
MapHas(m, k) == \E i \in DOMAIN m : m[i].key = k

MapIndex(m, k) == CHOOSE i \in DOMAIN m : m[i].key = k

MapGet(m, k) == m[MapIndex(m, k)]

MapDelete(m, k) == SelectSeq(m, LAMBDA e : e.key # k)

\* Map.prototype.set keeps the position of a key that is present and appends
\* a key that is not.
MapSet(m, k, v, x) ==
  LET e == [key |-> k, value |-> v, expiry |-> x]
  IN IF MapHas(m, k)
       THEN [i \in DOMAIN m |-> IF m[i].key = k THEN e ELSE m[i]]
       ELSE Append(m, e)

\* this.cache.keys().next().value
MapFirstKey(m) == IF Len(m) = 0 THEN Undefined ELSE m[1].key

MapKeys(m) == [i \in DOMAIN m |-> m[i].key]

KeySet(m) == { m[i].key : i \in DOMAIN m }

\* ------------------------------------------------------------------------
\* LRUCache
\* ------------------------------------------------------------------------
isExpired_inclusive(entry, t) == t >= entry.expiry

isExpired(entry, t) == t > entry.expiry

\* A get that reports an expired entry as absent but leaves it in the Map.
LRUGet_keepExpired(m, k, t) ==
  IF ~MapHas(m, k)
    THEN [cache |-> m, result |-> Null]
    ELSE LET entry == MapGet(m, k)
         IN IF isExpired(entry, t)
              THEN [cache |-> m, result |-> Null]
              ELSE [cache |-> MapSet(MapDelete(m, k), k, entry.value, entry.expiry),
                    result |-> entry.value]

\* A get that first sweeps every expired entry out of the Map.
LRUGet_sweep(m, k, t) ==
  LET live == SelectSeq(m, LAMBDA e : ~isExpired(e, t))
  IN IF ~MapHas(live, k)
       THEN [cache |-> live, result |-> Null]
       ELSE LET entry == MapGet(live, k)
            IN [cache |-> MapSet(MapDelete(live, k), k, entry.value, entry.expiry),
                result |-> entry.value]

\* A get that, on a hit, restarts the life of the entry (a sliding expiry).
LRUGet_refreshExpiry(m, k, t) ==
  IF ~MapHas(m, k)
    THEN [cache |-> m, result |-> Null]
    ELSE LET entry == MapGet(m, k)
         IN IF isExpired(entry, t)
              THEN [cache |-> MapDelete(m, k), result |-> Null]
              ELSE [cache |-> MapSet(MapDelete(m, k), k, entry.value, t + ttl),
                    result |-> entry.value]

\* A get that, finding its key expired, removes every expired entry.
LRUGet_purgeExpired(m, k, t) ==
  IF ~MapHas(m, k)
    THEN [cache |-> m, result |-> Null]
    ELSE LET entry == MapGet(m, k)
         IN IF isExpired(entry, t)
              THEN [cache |-> SelectSeq(m, LAMBDA e : ~isExpired(e, t)),
                    result |-> Null]
              ELSE [cache |-> MapSet(MapDelete(m, k), k, entry.value, entry.expiry),
                    result |-> entry.value]

\* get: the Map after the call and the value returned.
LRUGet(m, k, t) ==
  IF ~MapHas(m, k)
    THEN [cache |-> m, result |-> Null]
    ELSE LET entry == MapGet(m, k)
         IN IF isExpired(entry, t)
              THEN [cache |-> MapDelete(m, k), result |-> Null]
              ELSE [cache |-> MapSet(MapDelete(m, k), k, entry.value, entry.expiry),
                    result |-> entry.value]

\* A set that keeps the entry of a key that is already present.
LRUSet_firstWriteWins(m, k, v, t, cap, life) ==
  IF MapHas(m, k)
    THEN m
    ELSE LET m1 == IF Len(m) >= cap
                     THEN LET firstKey == MapFirstKey(m)
                          IN IF Truthy(firstKey) THEN MapDelete(m, firstKey) ELSE m
                     ELSE m
         IN MapSet(m1, k, v, t + life)

\* A set that tests the capacity before it tests whether the key is present.
LRUSet_capacityFirst(m, k, v, t, cap, life) ==
  LET m1 == IF Len(m) >= cap
              THEN LET firstKey == MapFirstKey(m)
                   IN IF Truthy(firstKey) THEN MapDelete(m, firstKey) ELSE m
              ELSE m
      m2 == IF MapHas(m1, k) THEN MapDelete(m1, k) ELSE m1
  IN MapSet(m2, k, v, t + life)

\* set: the Map after the call.
LRUSet(m, k, v, t, cap, life) ==
  LET m1 == IF MapHas(m, k)
              THEN MapDelete(m, k)
              ELSE IF Len(m) >= cap
                     THEN LET firstKey == MapFirstKey(m)
                          IN IF Truthy(firstKey) THEN MapDelete(m, firstKey) ELSE m
                     ELSE m
  IN MapSet(m1, k, v, t + life)

\* ------------------------------------------------------------------------
\* History of touches: a set of the key, or a get that returned a value
\* ------------------------------------------------------------------------
Touch(s, k) == Append(SelectSeq(s, LAMBDA x : x # k), k)

\* The last set of each key that is still resident after an operation.
Stored(s, m, k, v, t, isSet) ==
  [x \in KeySet(m) |-> IF isSet /\ x = k THEN [value |-> v, at |-> t] ELSE s[x]]

\* ------------------------------------------------------------------------
\* The Home page: values
\* ------------------------------------------------------------------------
\* The two Home components of the repository: src/app/page.tsx, and
\* src/unnamed/part_002, which adds the autocomplete suggestions.
Plain == "page.tsx"
WithSuggestions == "part_002"

\* const THROTTLE_DELAY = 500
THROTTLE_DELAY == 500

\* .slice(0, 8)
MaxSuggestions == 8

\* debounceTimer.current holds no pending timer.  (typed: the time of the
\* handleSearch call that set the timer; has: suggestions.length > 0 as the
\* fetchPokemon of that call sees it.)
NoTimer == [pending |-> FALSE, value |-> <<>>, due |-> 0, has |-> FALSE, typed |-> 0]

NoLook == [kind |-> "none", value |-> <<>>, at |-> 0, typed |-> 0, prev |-> 0,
           by |-> "none", has |-> FALSE]

\* The state of Home after it has mounted: the initial values of useState and
\* useRef; in the component with suggestions the effect has called loadNames.
Mounted(v) ==
  /\ variant = v
  /\ searchTerm = <<>>
  /\ pokemon = Null
  /\ loading = FALSE
  /\ error = <<>>
  /\ isCached = FALSE
  /\ allNames = <<>>
  /\ suggestions = <<>>
  /\ debounceTimer = NoTimer
  /\ lastSearchTime = 0
  /\ clock = LoadTime
  /\ lookups = EmptyBag
  /\ namesReq = IF v = WithSuggestions THEN "pending" ELSE "none"
  /\ prevStart = 0
  /\ look = NoLook

\* ------------------------------------------------------------------------
\* Direct callers of the cache
\* ------------------------------------------------------------------------
NoOp == [op |-> "none", key |-> <<>>, value |-> Null, result |-> Null,
         before |-> <<>>, was |-> <<>>, at |-> 0]

NoScenario == [step |-> 0, A |-> <<>>, B |-> <<>>, C |-> <<>>]

\* NextResponse.json(...) not yet called.
NoResponse == [status |-> 0, cached |-> "absent", shape |-> "none", of |-> Null]

\* A request as its handler is called.
NewRequest == [route |-> "none", pc |-> "idle", name |-> <<>>, key |-> <<>>,
         doc |-> 0, nmoves |-> 0, calls |-> 0, rival |-> "none", rivalSize |-> 0]

\* No fetch of a pokemon document has started.
NoUrl == <<"#none">>

\* No request has completed.  (url: the identifier at the end of the upstream
\* URL, in the step in which a handler starts the fetch of a pokemon document.)
NoRequest == [route |-> "none", name |-> <<>>, key |-> <<>>, url |-> NoUrl,
              nmoves |-> 0,
              looked |-> FALSE, had |-> Null, got |-> Null,
              calls |-> 0, sets |-> 0, failed |-> "no", resp |-> NoResponse,
              rival |-> "none", rivalSize |-> 0, setAt |-> 0,
              count |-> 0, size |-> 0, before |-> Null, after |-> Null]

CacheInit ==
  /\ req = EmptyBag
  /\ fin = NoRequest
  /\ listed = FALSE
  /\ Mounted(WithSuggestions)
  /\ cache = <<>>
  /\ maxEntries \in 1..MaxCapacity
  /\ ttl \in 0..MaxTtl
  /\ now = 0
  /\ touched = <<>>
  /\ stored = <<>>
  /\ last = NoOp
  /\ scn = NoScenario

Get(k) ==
  LET r == LRUGet(cache, k, now)
  IN /\ cache' = r.cache
     /\ touched' = IF r.result # Null THEN Touch(touched, k) ELSE touched
     /\ stored' = Stored(stored, r.cache, k, Null, now, FALSE)
     /\ last' = [op |-> "get", key |-> k, value |-> Null, result |-> r.result,
                 before |-> cache, was |-> stored, at |-> now]
     /\ UNCHANGED <<maxEntries, ttl, now>>

Set(k, v) ==
  /\ cache' = LRUSet(cache, k, v, now, maxEntries, ttl)
  /\ touched' = Touch(touched, k)
  /\ stored' = Stored(stored, cache', k, v, now, TRUE)
  /\ last' = [op |-> "set", key |-> k, value |-> v, result |-> Null,
              before |-> cache, was |-> stored, at |-> now]
  /\ UNCHANGED <<maxEntries, ttl, now>>

\* Date.now() is larger at a later call.
Advance ==
  /\ now < MaxTime
  /\ now' \in (now + 1)..MaxTime

\* Time passes between two calls.
Tick ==
  /\ Advance
  /\ last' = [op |-> "tick", key |-> <<>>, value |-> Null, result |-> Null,
              before |-> cache, was |-> stored, at |-> now]
  /\ UNCHANGED <<cache, maxEntries, ttl, touched, stored>>

\* A direct caller calls get, calls set, or lets time pass.
CallGet == \E k \in CacheKeys : Get(k) /\ UNCHANGED <<scn, routeVars, pageVars>>

CallSet == \E k \in CacheKeys, v \in CacheValues : Set(k, v) /\ UNCHANGED <<scn, routeVars, pageVars>>

Wait == Tick /\ UNCHANGED <<scn, routeVars, pageVars>>

CacheNext ==
  \/ CallGet
  \/ CallSet
  \/ Wait

CacheSpec == CacheInit /\ [][CacheNext]_vars

\* ------------------------------------------------------------------------
\* Construction.  constructor(maxEntries = 50, ttl = 5 * 60 * 1000) assigns
\* its two arguments to the fields and creates an empty Map; it has no other
\* statement, so it throws for no argument.  The defaults are valid values
\* and are covered by the explicit arguments.
\* ------------------------------------------------------------------------
\* The arguments a caller of the constructor can pass: negative, zero and
\* positive numbers.
CtorCapacities == (0 - 1)..MaxCapacity

CtorTtls == (0 - 1)..MaxTtl

\* new LRUCache(maxEntriesArg, ttlArg): the fields of the instance, and
\* whether the constructor threw.
LRUCacheNew(maxEntriesArg, ttlArg) ==
  [cache |-> <<>>, maxEntries |-> maxEntriesArg, ttl |-> ttlArg, thrown |-> FALSE]

\* An instance exists after a construction that did not throw.
CtorInit ==
  /\ req = EmptyBag
  /\ fin = NoRequest
  /\ listed = FALSE
  /\ Mounted(WithSuggestions)
  /\ now = 0
  /\ touched = <<>>
  /\ stored = <<>>
  /\ last = NoOp
  /\ scn = NoScenario
  /\ \E c \in CtorCapacities, l \in CtorTtls :
       LET made == LRUCacheNew(c, l)
       IN /\ ~made.thrown
          /\ cache = made.cache
          /\ maxEntries = made.maxEntries
          /\ ttl = made.ttl

\* Any instance, used by direct callers.
CtorSpec == CtorInit /\ [][CacheNext]_vars

\* ------------------------------------------------------------------------
\* The scenario of P2, started in any state of the cache: four consecutive
\* calls set(A), set(B), get(A) returning a value, set(C), A, B, C distinct.
\* ------------------------------------------------------------------------
ScnSetA ==
  /\ UNCHANGED <<routeVars, pageVars>>
  /\ scn.step = 0
  /\ \E a \in CacheKeys, v \in CacheValues :
       /\ Set(a, v)
       /\ scn' = [step |-> 1, A |-> a, B |-> <<>>, C |-> <<>>]

ScnSetB ==
  /\ UNCHANGED <<routeVars, pageVars>>
  /\ scn.step = 1
  /\ \E b \in CacheKeys \ {scn.A}, v \in CacheValues :
       /\ Set(b, v)
       /\ scn' = [scn EXCEPT !.step = 2, !.B = b]

ScnGetA ==
  /\ UNCHANGED <<routeVars, pageVars>>
  /\ scn.step = 2
  /\ LRUGet(cache, scn.A, now).result # Null
  /\ Get(scn.A)
  /\ scn' = [scn EXCEPT !.step = 3]

ScnSetC ==
  /\ UNCHANGED <<routeVars, pageVars>>
  /\ scn.step = 3
  /\ \E c \in CacheKeys \ {scn.A, scn.B}, v \in CacheValues :
       /\ Set(c, v)
       /\ scn' = [scn EXCEPT !.step = 4, !.C = c]

\* Any calls before the scenario starts.
ScnBefore == scn.step = 0 /\ CacheNext

ScenarioNext ==
  \/ ScnBefore
  \/ ScnSetA
  \/ ScnSetB
  \/ ScnGetA
  \/ ScnSetC

ScenarioSpec == CacheInit /\ [][ScenarioNext]_vars

\* ------------------------------------------------------------------------
\* The route handlers.  A handler runs without interruption from one await
\* to the next, so each action below is the code between two awaits.
\* ------------------------------------------------------------------------
\* const cacheKey = "pokemon-suggestions"
SuggestKey == <<"p","o","k","e","m","o","n","-","s","u","g","g","e","s","t","i","o","n","s">>

\* The names a detail request can carry; <<>> is a missing name.
DetailNames == { <<>>, <<"P">>, <<"p">> }

\* What the upstream can answer for a pokemon: the documents of a pokemon
\* without moves, or those of a pokemon with MaxMoves moves.
PokemonDocs == { [ver |-> 1, nmoves |-> 0], [ver |-> 2, nmoves |-> MaxMoves] }

\* What the upstream can answer for the name list.
ListDocs == {1, 2}

\* pokemon.moves.slice(0, 20)
MoveLimit == 20

Min(a, b) == IF a < b THEN a ELSE b

\* String.prototype.toLowerCase on the letters the names use.
LowerChar(c) == CASE c = "P" -> "p" [] OTHER -> c

ToLowerCase(str) == IF str = <<>> THEN <<>> ELSE [i \in DOMAIN str |-> LowerChar(str[i])]

ValueAt(m, k) == IF MapHas(m, k) THEN MapGet(m, k).value ELSE Null

EntryAt(m, k) == IF MapHas(m, k) THEN MapGet(m, k) ELSE Null

KeyCount(m, k) == Cardinality({ i \in DOMAIN m : m[i].key = k })

\* The stages at which a handler waits for the upstream.
DetailStages == {"base", "species", "evolution", "moves"}
FetchStages == DetailStages \cup {"list"}

\* The handlers in flight; at most MaxHandlers requests are served at once.
Handlers == BagToSet(req)

Accepting == BagCardinality(req) < MaxHandlers

Waiting(g, k) == g.pc \in FetchStages /\ g.key = k

\* Handler r goes on as r2, or returns.
Continue(r, r2) == (req (-) SetToBag({r})) (+) SetToBag({r2})

Return(r) == req (-) SetToBag({r})

\* The request of handler r as it completes.
Completed(r) ==
  [NoRequest EXCEPT !.route = r.route, !.name = r.name, !.key = r.key,
                    !.nmoves = r.nmoves,
                    !.calls = r.calls, !.rival = r.rival,
                    !.rivalSize = r.rivalSize]

\* What a waiting handler g has seen once key k is stored into a Map of size
\* sizeBefore: a handler that missed on k has seen a rival store first; one
\* that had seen a rival store, and now sees another key stored, no longer has
\* the rival's set as the latest one.
Seen(g, k, sizeBefore) ==
  IF Waiting(g, k)
    THEN [g EXCEPT !.rival = "clean", !.rivalSize = sizeBefore]
  ELSE IF g.pc \in FetchStages /\ g.rival = "clean"
    THEN [g EXCEPT !.rival = "mixed", !.rivalSize = 0]
  ELSE g

\* Handler r stores under key k and returns.
Release(r, k, sizeBefore) ==
  BagOfAll(LAMBDA g : Seen(g, k, sizeBefore), Return(r))

\* NextResponse.json({ cached: true, ... })
HitResponse(shape, value) ==
  [status |-> 200, cached |-> "true", shape |-> shape, of |-> value]

\* NextResponse.json({ cached: false, ... })
MissResponse(shape, value) ==
  [status |-> 200, cached |-> "false", shape |-> shape, of |-> value]

\* NextResponse.json({ error, message }, { status })
ErrorResponse(code) ==
  [status |-> code, cached |-> "absent", shape |-> "error", of |-> Null]

\* A handler that sends the response without storing it.
StoreAndRespond_noStore(r, value, shape) ==
  /\ cache' = cache
  /\ fin' = [Completed(r) EXCEPT !.looked = TRUE,
                                 !.resp = MissResponse(shape, value),
                                 !.setAt = now,
                                 !.count = KeyCount(cache', r.key),
                                 !.before = EntryAt(cache, r.key),
                                 !.after = EntryAt(cache', r.key),
                                 !.size = Len(cache')]
  /\ req' = Return(r)
  /\ UNCHANGED <<maxEntries, ttl, now>>

\* cache.set(key, response) followed by the response, in handler r.
StoreAndRespond(r, value, shape) ==
  /\ cache' = LRUSet(cache, r.key, value, now, maxEntries, ttl)
  /\ fin' = [Completed(r) EXCEPT !.looked = TRUE, !.sets = 1,
                                 !.resp = MissResponse(shape, value),
                                 !.setAt = now,
                                 !.count = KeyCount(cache', r.key),
                                 !.before = EntryAt(cache, r.key),
                                 !.after = EntryAt(cache', r.key),
                                 !.size = Len(cache')]
  /\ req' = Release(r, r.key, Len(cache))
  /\ UNCHANGED <<maxEntries, ttl, now>>

\* A catch block that caches the error it reports.
CatchAndRespond_cachesFailure(r, code) ==
  /\ cache' = LRUSet(cache, r.key, ErrorResponse(code), now, maxEntries, ttl)
  /\ fin' = [Completed(r) EXCEPT !.looked = TRUE, !.sets = 1, !.failed = r.pc,
                                 !.resp = ErrorResponse(code),
                                 !.before = EntryAt(cache, r.key),
                                 !.after = EntryAt(cache', r.key)]
  /\ req' = Return(r)
  /\ UNCHANGED <<maxEntries, ttl, now>>

\* The catch block: the error response, and nothing stored.
CatchAndRespond(r, code) ==
  /\ cache' = cache
  /\ fin' = [Completed(r) EXCEPT !.looked = TRUE, !.failed = r.pc,
                                 !.resp = ErrorResponse(code),
                                 !.before = EntryAt(cache, r.key),
                                 !.after = EntryAt(cache', r.key)]
  /\ req' = Return(r)
  /\ UNCHANGED <<maxEntries, ttl, now>>

\* GET /api/pokemon/[name] is called; it awaits context.params.
StartDetail ==
  /\ Accepting
  /\ \E n \in DetailNames :
       req' = req (+) SetToBag({[NewRequest EXCEPT !.route = "detail",
                                                   !.pc = "params", !.name = n]})
  /\ fin' = NoRequest
  /\ UNCHANGED <<cacheVars, histVars, listed, pageVars>>

\* From the name to the cache lookup: 400, a hit, or the first fetch.
DetailLookup ==
  /\ UNCHANGED <<maxEntries, ttl, now, histVars, listed, pageVars>>
  /\ \E r \in Handlers :
       /\ r.pc = "params"
       /\ IF ~Truthy(r.name)
            THEN /\ fin' = [Completed(r) EXCEPT !.resp = ErrorResponse(400)]
                 /\ req' = Return(r)
                 /\ cache' = cache
            ELSE LET key == ToLowerCase(r.name)
                     got == LRUGet(cache, key, now)
                 IN /\ cache' = got.cache
                    /\ IF got.result # Null
                         THEN /\ fin' = [Completed(r) EXCEPT
                                           !.key = key, !.looked = TRUE,
                                           !.had = ValueAt(cache, key),
                                           !.got = got.result,
                                           !.resp = HitResponse("spread", got.result)]
                              /\ req' = Return(r)
                         ELSE /\ req' = Continue(r, [r EXCEPT !.pc = "base",
                                                              !.name = <<>>,
                                                              !.key = key,
                                                              !.calls = 1])
                              /\ fin' = [NoRequest EXCEPT !.name = r.name,
                                                          !.key = key,
                                                          !.url = r.name]

\* The pokemon document arrives; the species fetch starts.
BaseOk ==
  /\ \E r \in Handlers :
       /\ r.pc = "base"
       /\ req' = Continue(r, [r EXCEPT !.pc = "species", !.calls = @ + 1])
  /\ fin' = NoRequest
  /\ UNCHANGED <<cacheVars, histVars, listed, pageVars>>

\* The species document arrives; the evolution chain fetch starts.
SpeciesOk ==
  /\ \E r \in Handlers :
       /\ r.pc = "species"
       /\ req' = Continue(r, [r EXCEPT !.pc = "evolution", !.calls = @ + 1])
  /\ fin' = NoRequest
  /\ UNCHANGED <<cacheVars, histVars, listed, pageVars>>

\* The evolution chain arrives; the fetches of the first 20 moves of the
\* pokemon document d start.
EvolutionOk ==
  /\ \E r \in Handlers, d \in PokemonDocs :
       /\ r.pc = "evolution"
       /\ req' = Continue(r, [r EXCEPT !.pc = "moves", !.doc = d.ver,
                                       !.nmoves = d.nmoves,
                                       !.calls = @ + Min(d.nmoves, MoveLimit)])
  /\ fin' = NoRequest
  /\ UNCHANGED <<cacheVars, histVars, listed, pageVars>>

\* Promise.all(movePromises) resolves: the response is built, stored and sent.
MovesOk ==
  /\ \E r \in Handlers :
       /\ r.pc = "moves"
       /\ StoreAndRespond(r, [kind |-> "pokemon", ver |-> r.doc,
                              moves |-> Min(r.nmoves, MoveLimit)], "spread")
  /\ UNCHANGED <<histVars, listed, pageVars>>

\* A fetch, or the use of what it returned, throws inside the try block.
DetailFail ==
  /\ \E r \in Handlers :
       /\ r.pc \in DetailStages
       /\ CatchAndRespond(r, 404)
  /\ UNCHANGED <<histVars, listed, pageVars>>

\* A handler that fetches the name list without asking the cache.
StartSuggest_alwaysFetch ==
  /\ Accepting
  /\ UNCHANGED <<cacheVars, histVars, listed, pageVars>>
  /\ req' = req (+) SetToBag({[NewRequest EXCEPT !.route = "suggest",
                                                 !.key = SuggestKey,
                                                 !.pc = "list", !.calls = 1]})
  /\ fin' = NoRequest

\* GET /api/pokemon-suggestions is called: the lookup comes before any await.
StartSuggest ==
  /\ Accepting
  /\ UNCHANGED <<maxEntries, ttl, now, histVars, listed, pageVars>>
  /\ LET got == LRUGet(cache, SuggestKey, now)
         r == [NewRequest EXCEPT !.route = "suggest", !.key = SuggestKey]
     IN /\ cache' = got.cache
        /\ IF got.result # Null
             THEN /\ fin' = [Completed(r) EXCEPT
                               !.looked = TRUE,
                               !.had = ValueAt(cache, SuggestKey),
                               !.got = got.result,
                               !.resp = HitResponse("names", got.result)]
                  /\ req' = req
             ELSE /\ req' = req (+) SetToBag({[r EXCEPT !.pc = "list", !.calls = 1]})
                  /\ fin' = NoRequest

\* The name list arrives: the names are stored and sent.
ListOk ==
  /\ \E r \in Handlers, v \in ListDocs :
       /\ r.pc = "list"
       /\ StoreAndRespond(r, [kind |-> "names", ver |-> v], "names")
  /\ listed' = TRUE
  /\ UNCHANGED <<histVars, pageVars>>

\* The name list fetch throws.
ListFail ==
  /\ \E r \in Handlers :
       /\ r.pc = "list"
       /\ CatchAndRespond(r, 500)
  /\ UNCHANGED <<histVars, listed, pageVars>>

\* Time passes while handlers wait.
RouteTick ==
  /\ Advance
  /\ fin' = NoRequest
  /\ UNCHANGED <<cache, maxEntries, ttl, req, histVars, listed, pageVars>>

RouteNext ==
  \/ StartDetail
  \/ DetailLookup
  \/ BaseOk
  \/ SpeciesOk
  \/ EvolutionOk
  \/ MovesOk
  \/ DetailFail
  \/ StartSuggest
  \/ ListOk
  \/ ListFail
  \/ RouteTick

\* const cache = new LRUCache<unknown>(100, 10 * 60 * 1000), scaled down: the
\* process-wide instance has a positive ttl.
RouteInit == CacheInit /\ ttl = MaxTtl

RouteSpec == RouteInit /\ [][RouteNext]_vars

\* ------------------------------------------------------------------------
\* The older detail handler, src/app/api/pokemon/route.ts.  It differs from
\* the handler above in three places: params is not awaited and the name is
\* lower-cased before both uses, there is no test for a missing name, and
\* every move of the pokemon is mapped to a fetch before the list of
\* promises is cut to 20.  Its other stages are those of the handler above.
\* ------------------------------------------------------------------------
\* GET is called: the name is lower-cased and looked up before any await.
LegacyStart ==
  /\ Accepting
  /\ UNCHANGED <<maxEntries, ttl, now, histVars, listed, pageVars>>
  /\ \E n \in DetailNames :
       LET name == ToLowerCase(n)
           got == LRUGet(cache, name, now)
           r == [NewRequest EXCEPT !.route = "legacy", !.key = name]
       IN /\ cache' = got.cache
          /\ IF got.result # Null
               THEN /\ fin' = [Completed(r) EXCEPT
                                 !.name = n, !.looked = TRUE,
                                 !.had = ValueAt(cache, name),
                                 !.got = got.result,
                                 !.resp = HitResponse("spread", got.result)]
                    /\ req' = req
               ELSE /\ req' = req (+) SetToBag({[r EXCEPT !.pc = "base",
                                                          !.calls = 1]})
                    /\ fin' = [NoRequest EXCEPT !.name = n, !.key = name,
                                                !.url = name]

\* The evolution chain arrives; pokemon.moves.map starts a fetch for every
\* move of the pokemon document d.
LegacyEvolutionOk ==
  /\ \E r \in Handlers, d \in PokemonDocs :
       /\ r.pc = "evolution"
       /\ req' = Continue(r, [r EXCEPT !.pc = "moves", !.doc = d.ver,
                                       !.nmoves = d.nmoves,
                                       !.calls = @ + d.nmoves])
  /\ fin' = NoRequest
  /\ UNCHANGED <<cacheVars, histVars, listed, pageVars>>

\* Promise.all(movePromises.slice(0, 20)) resolves: the response holds the
\* first 20 moves; it is stored and sent.
LegacyMovesOk ==
  /\ \E r \in Handlers :
       /\ r.pc = "moves"
       /\ StoreAndRespond(r, [kind |-> "pokemon", ver |-> r.doc,
                              moves |-> Min(r.nmoves, MoveLimit)], "spread")
  /\ UNCHANGED <<histVars, listed, pageVars>>

LegacyNext ==
  \/ LegacyStart
  \/ BaseOk
  \/ SpeciesOk
  \/ LegacyEvolutionOk
  \/ LegacyMovesOk
  \/ DetailFail
  \/ RouteTick

LegacySpec == RouteInit /\ [][LegacyNext]_vars

\* ------------------------------------------------------------------------
\* The two routes share the process-wide cache, and the name of a detail
\* request is any path segment: it can be the key of the suggestions route.
\* ------------------------------------------------------------------------
\* GET /api/pokemon/pokemon-suggestions is called; it awaits context.params.
StartDetailOnSuggestKey ==
  /\ Accepting
  /\ req' = req (+) SetToBag({[NewRequest EXCEPT !.route = "detail",
                                                 !.pc = "params",
                                                 !.name = SuggestKey]})
  /\ fin' = NoRequest
  /\ UNCHANGED <<cacheVars, histVars, listed, pageVars>>

SharedKeyNext ==
  \/ StartDetail
  \/ StartDetailOnSuggestKey
  \/ DetailLookup
  \/ BaseOk
  \/ SpeciesOk
  \/ EvolutionOk
  \/ MovesOk
  \/ DetailFail
  \/ StartSuggest
  \/ ListOk
  \/ ListFail
  \/ RouteTick

SharedKeySpec == RouteInit /\ [][SharedKeyNext]_vars

\* ------------------------------------------------------------------------
\* The Home page.  An event handler, a timer callback and the code between
\* two awaits of fetchPokemon or loadNames run without interruption, and
\* React renders between them, so each is one action.  A callback sees the
\* state of the render that created it: fetchPokemon, recreated when
\* suggestions.length changes, sees the suggestions as they were rendered
\* when handleSearch was called, before the setSuggestions of that call.
\* ------------------------------------------------------------------------
\* The values handleSearch is called with, by typing or by a button: "", " ",
\* "P ", "pa" and "z".
InputValues == { <<>>, <<" ">>, <<"P", " ">>, <<"p", "a">>, <<"z">> }

Letters == <<"a", "b", "c", "d", "e", "f", "g", "h", "i", "j", "k", "l", "m", "n">>

\* data.names of /api/pokemon-suggestions: "pa", "ia", "pc", "pd", ...
NameList ==
  [i \in 1..MaxNames |-> IF i = 2 THEN <<"i", "a">> ELSE <<"p", Letters[i]>>]

\* What the detail route can put in the message of an error response: no
\* message, or err.message.
ServerMessages == { <<>>, <<"Failed fetching">> }

IsSpace(c) == c = " "

RECURSIVE TrimStart(_)
TrimStart(str) ==
  IF str # <<>> /\ IsSpace(Head(str)) THEN TrimStart(Tail(str)) ELSE str

RECURSIVE TrimEnd(_)
TrimEnd(str) ==
  IF str # <<>> /\ IsSpace(str[Len(str)])
    THEN TrimEnd(SubSeq(str, 1, Len(str) - 1))
    ELSE str

\* String.prototype.trim
Trim(str) == TrimEnd(TrimStart(str))

\* String.prototype.startsWith
StartsWith(str, prefix) ==
  /\ Len(prefix) <= Len(str)
  /\ SubSeq(str, 1, Len(prefix)) = prefix

\* Array.prototype.slice(0, n)
SliceTo(arr, n) == SubSeq(arr, 1, Min(Len(arr), n))

\* A filter that keeps every match.
Matches_noSlice(names, value) ==
  LET normalized == Trim(ToLowerCase(value))
  IN IF normalized = <<>>
       THEN <<>>
       ELSE SelectSeq(names, LAMBDA name : StartsWith(name, normalized))

\* What handleSearch passes to setSuggestions.
Matches(names, value) ==
  LET normalized == Trim(ToLowerCase(value))
  IN IF normalized = <<>>
       THEN <<>>
       ELSE SliceTo(SelectSeq(names, LAMBDA name : StartsWith(name, normalized)),
                    MaxSuggestions)

\* `No Pokemon found with the name "${name.trim()}"`
NoPokemonFound(name) ==
  <<"No Pokemon found with the name \"">> \o Trim(name) \o <<"\"">>

\* data.message || "Pokemon not found"
MessageOf(message) == IF message # <<>> THEN message ELSE <<"Pokemon not found">>

\* The result areas of the page, as the JSX renders them.
PillsVisible ==
  /\ variant = WithSuggestions
  /\ Trim(searchTerm) # <<>>
  /\ pokemon = Null
  /\ Len(suggestions) > 0

BannerVisible ==
  IF variant = WithSuggestions
    THEN error # <<>> /\ pokemon = Null
    ELSE error # <<>>

CardVisible == pokemon # Null /\ ~loading

\* A Popular Searches section that does not look at the search term.
PopularVisible_ignoresTerm == pokemon = Null /\ ~loading /\ error = <<>>

PopularVisible ==
  IF variant = WithSuggestions
    THEN pokemon = Null /\ ~loading /\ error = <<>> /\ Trim(searchTerm) = <<>>
    ELSE pokemon = Null /\ ~loading /\ error = <<>>

\* fetchPokemon(name) up to its first await, called at the time `clock` by
\* a handleSearch call of the time `typed`; next is what the caller has
\* passed to setSuggestions, has is suggestions.length > 0 as the callback
\* sees it.
FetchPokemon(name, has, next, by, typed) ==
  IF Trim(name) = <<>>
    THEN /\ pokemon' = Null
         /\ error' = <<>>
         /\ suggestions' = IF variant = WithSuggestions THEN <<>> ELSE next
         /\ look' = [NoLook EXCEPT !.kind = "blank", !.value = name, !.at = clock,
                                   !.typed = typed, !.by = by]
         /\ UNCHANGED <<loading, lookups, prevStart>>
    ELSE /\ loading' = TRUE
         /\ error' = <<>>
         /\ suggestions' = next
         /\ lookups' = lookups (+) SetToBag({[name |-> name, has |-> has]})
         /\ look' = [NoLook EXCEPT !.kind = "start", !.value = name, !.at = clock,
                                   !.typed = typed, !.prev = prevStart, !.by = by]
         /\ prevStart' = clock
         /\ UNCHANGED pokemon

\* handleSearch(value): by a change of the input, a suggestion pill or a
\* Popular Searches button.
HandleSearch ==
  /\ BagCardinality(lookups) < MaxLookups
  /\ \E value \in InputValues :
       LET next == IF variant = WithSuggestions
                     THEN Matches(allNames, value)
                     ELSE suggestions
           has == variant = WithSuggestions /\ Len(suggestions) > 0
           timeSinceLastSearch == clock - lastSearchTime
       IN /\ searchTerm' = value
          /\ IF timeSinceLastSearch < THROTTLE_DELAY
               THEN /\ debounceTimer' =
                         [pending |-> TRUE, value |-> value,
                          due |-> clock + (THROTTLE_DELAY - timeSinceLastSearch),
                          has |-> has, typed |-> clock]
                    /\ suggestions' = next
                    /\ look' = [NoLook EXCEPT !.kind = "typed", !.value = value,
                                              !.at = clock, !.typed = clock]
                    /\ UNCHANGED <<lastSearchTime, pokemon, loading, error,
                                   lookups, prevStart>>
               ELSE /\ debounceTimer' = NoTimer
                    /\ lastSearchTime' = clock
                    /\ FetchPokemon(value, has, next, "immediate", clock)
  /\ UNCHANGED <<variant, isCached, allNames, clock, namesReq, serverVars>>

\* A timer callback that calls fetchPokemon and leaves lastSearchTime alone.
TimerFires_keepsLastTime ==
  /\ BagCardinality(lookups) < MaxLookups
  /\ debounceTimer.pending
  /\ clock >= debounceTimer.due
  /\ debounceTimer' = NoTimer
  /\ FetchPokemon(debounceTimer.value, debounceTimer.has, suggestions, "timer",
                  debounceTimer.typed)
  /\ UNCHANGED <<variant, searchTerm, isCached, allNames, clock, namesReq,
                 lastSearchTime, serverVars>>

\* The callback of setTimeout runs, at its due time or later.
TimerFires ==
  /\ BagCardinality(lookups) < MaxLookups
  /\ debounceTimer.pending
  /\ clock >= debounceTimer.due
  /\ debounceTimer' = NoTimer
  /\ lastSearchTime' = clock
  /\ FetchPokemon(debounceTimer.value, debounceTimer.has, suggestions, "timer",
                  debounceTimer.typed)
  /\ UNCHANGED <<variant, searchTerm, isCached, allNames, clock, namesReq,
                 serverVars>>

\* The response of a lookup is ok: setPokemon(data), setIsCached, setLoading.
LookupOk ==
  /\ \E l \in BagToSet(lookups), c \in BOOLEAN :
       /\ lookups' = lookups (-) SetToBag({l})
       /\ pokemon' = [kind |-> "pokemon", name |-> ToLowerCase(l.name)]
       /\ isCached' = c
       /\ look' = [NoLook EXCEPT !.kind = "ok", !.value = l.name, !.at = clock,
                                 !.has = l.has]
  /\ loading' = FALSE
  /\ UNCHANGED <<variant, searchTerm, error, allNames, suggestions, debounceTimer,
                 lastSearchTime, clock, namesReq, prevStart, serverVars>>

\* The fetch of a lookup rejects or its response is not ok: the catch block,
\* then setLoading.  What is thrown is always an Error.
LookupFail ==
  /\ \E l \in BagToSet(lookups), m \in ServerMessages :
       /\ lookups' = lookups (-) SetToBag({l})
       /\ error' = IF variant = WithSuggestions
                     THEN IF l.has THEN <<>> ELSE NoPokemonFound(l.name)
                     ELSE MessageOf(m)
       /\ look' = [NoLook EXCEPT !.kind = "fail", !.value = l.name, !.at = clock,
                                 !.has = l.has]
  /\ pokemon' = Null
  /\ loading' = FALSE
  /\ UNCHANGED <<variant, searchTerm, isCached, allNames, suggestions,
                 debounceTimer, lastSearchTime, clock, namesReq, prevStart,
                 serverVars>>

\* loadNames: the response is ok and data.names is an array.
NamesOk ==
  /\ namesReq = "pending"
  /\ namesReq' = "done"
  /\ allNames' = NameList
  /\ look' = NoLook
  /\ UNCHANGED <<variant, searchTerm, pokemon, loading, error, isCached,
                 suggestions, debounceTimer, lastSearchTime, clock, lookups,
                 prevStart, serverVars>>

\* loadNames: the fetch rejects, the response is not ok, or data.names is no
\* array.
NamesFail ==
  /\ namesReq = "pending"
  /\ namesReq' = "done"
  /\ look' = NoLook
  /\ UNCHANGED <<variant, homeVars, debounceTimer, lastSearchTime, clock, lookups,
                 prevStart, serverVars>>

\* Time passes in the browser: TimeStep milliseconds, or one less.
PageTick ==
  /\ \E d \in {TimeStep - 1, TimeStep} :
       /\ clock + d <= LoadTime + MaxTicks * TimeStep
       /\ clock' = clock + d
  /\ look' = NoLook
  /\ UNCHANGED <<variant, homeVars, debounceTimer, lastSearchTime, lookups,
                 namesReq, prevStart, serverVars>>

PageNext ==
  \/ HandleSearch
  \/ TimerFires
  \/ LookupOk
  \/ LookupFail
  \/ NamesOk
  \/ NamesFail
  \/ PageTick

\* Either Home component, mounted; the server side is not looked at.
PageInit ==
  /\ req = EmptyBag
  /\ fin = NoRequest
  /\ listed = FALSE
  /\ cache = <<>>
  /\ maxEntries = MaxCapacity
  /\ ttl = MaxTtl
  /\ now = 0
  /\ touched = <<>>
  /\ stored = <<>>
  /\ last = NoOp
  /\ scn = NoScenario
  /\ \E v \in {Plain, WithSuggestions} : Mounted(v)

PageSpec == PageInit /\ [][PageNext]_vars

\* ------------------------------------------------------------------------
\* Properties of the cache
\* ------------------------------------------------------------------------
Resident(m, k) == MapHas(m, k)

Removed == KeySet(last.before) \ KeySet(cache)

\* C1: after every get and set the number of resident entries is at most
\* the capacity.
C1_SizeAtMostCapacity == Len(cache) <= maxEntries

\* C2: set(K, V) removes another entry if and only if K is not resident and
\* size = capacity; it then removes exactly the first key in recency order and
\* the size is unchanged; a new K below capacity removes nothing and the size
\* grows by one.
C2_SetEvictsExactlyFirstWhenFull ==
  last.op = "set" =>
    LET b == last.before
        full == ~Resident(b, last.key) /\ Len(b) = maxEntries
    IN /\ (Removed # {}) <=> full
       /\ full => Removed = {b[1].key} /\ Len(cache) = Len(b)
       /\ (~Resident(b, last.key) /\ Len(b) < maxEntries)
            => Removed = {} /\ Len(cache) = Len(b) + 1

\* C3 (first half): the resident keys are in the order of their last touch.
OrderedByLastTouch ==
  MapKeys(cache) = SelectSeq(touched, LAMBDA k : k \in KeySet(cache))

Retrievable(k) ==
  /\ Resident(cache, k)
  /\ ~isExpired(MapGet(cache, k), now) =>
       LRUGet(cache, k, now).result = MapGet(cache, k).value

\* C3: the resident keys are ordered by the time of their last touch, and
\* with capacity 2, after set(A), set(B), get(A) hit, set(C), key B is gone
\* and A and C are still retrievable.
C3_RecencyOrderAndScenario ==
  /\ OrderedByLastTouch
  /\ (scn.step = 4 /\ maxEntries = 2) =>
       /\ ~Resident(cache, scn.B)
       /\ Retrievable(scn.A)
       /\ Retrievable(scn.C)

\* C4: a get of a resident key K, last set to V at time t0, returns V at any
\* time now <= t0 + ttl and absent at any time now > t0 + ttl.
C4_ValidUntilExpiryInclusive ==
  (last.op = "get" /\ Resident(last.before, last.key)) =>
    LET s == last.was[last.key]
    IN /\ last.at <= s.at + ttl => last.result = s.value
       /\ last.at > s.at + ttl => last.result = Null

\* A get exactly at the expiry instant, with a positive ttl, returned the value.
C4_Witness ==
  /\ last.op = "get"
  /\ Resident(last.before, last.key)
  /\ ttl > 0
  /\ last.at = last.was[last.key].at + ttl
  /\ last.result = last.was[last.key].value

ExpiredAt(m, t) == { m[i].key : i \in { j \in DOMAIN m : isExpired(m[j], t) } }

\* C5: a get of a resident, expired key removes exactly that entry and returns
\* absent; nothing else removes an entry for being expired: a get removes no
\* other key, the passing of time removes nothing, and a set removes at most
\* the first key, whatever has expired.
C5_LazyExpiryOnlyByGetOfThatKey ==
  /\ (last.op = "get" /\ Resident(last.before, last.key)
        /\ isExpired(MapGet(last.before, last.key), last.at)) =>
       /\ cache = MapDelete(last.before, last.key)
       /\ Len(cache) = Len(last.before) - 1
       /\ last.result = Null
  /\ last.op = "get" =>
       /\ Removed \subseteq {last.key}
       /\ Removed # {} => last.key \in ExpiredAt(last.before, last.at)
  /\ last.op = "tick" => cache = last.before
  /\ last.op = "set" => Removed \subseteq {MapFirstKey(last.before)}

\* A get removed its expired key while another expired entry stayed resident.
C5_Witness ==
  /\ last.op = "get"
  /\ Removed = {last.key}
  /\ ExpiredAt(cache, last.at) # {}

\* C6: a set of a resident key K evicts nothing, leaves the size unchanged,
\* makes K the last key, stores the new value with expiry now + ttl, and a get
\* of K at any time up to that expiry returns the new value.
C6_OverwriteResetsRecencyAndExpiry ==
  (last.op = "set" /\ Resident(last.before, last.key)) =>
    /\ KeySet(cache) = KeySet(last.before)
    /\ Len(cache) = Len(last.before)
    /\ cache = Append(MapDelete(last.before, last.key),
                      [key |-> last.key, value |-> last.value,
                       expiry |-> last.at + ttl])
    /\ \A t \in last.at..(last.at + ttl) :
         LRUGet(cache, last.key, t).result = last.value

\* A full cache of at least two entries had its first key overwritten with a
\* different value at a later time than it was stored.
C6_Witness ==
  /\ last.op = "set"
  /\ Resident(last.before, last.key)
  /\ Len(last.before) = maxEntries
  /\ Len(last.before) >= 2
  /\ last.before[1].key = last.key
  /\ last.before[1].value # last.value
  /\ last.before[1].expiry # last.at + ttl

\* C7: a get of a key that is not resident returns absent and leaves the Map
\* exactly as it was.
C7_MissLeavesMapUnchanged ==
  (last.op = "get" /\ ~Resident(last.before, last.key)) =>
    /\ last.result = Null
    /\ cache = last.before

\* A get missed on a Map that held two entries, one of them expired.
C7_Witness ==
  /\ last.op = "get"
  /\ ~Resident(last.before, last.key)
  /\ Len(last.before) >= 2
  /\ ExpiredAt(last.before, last.at) # {}

\* C20: a get of K that returns a value leaves the value and the expiry of
\* the entry of K as they were, so the expiry is still the time of the last
\* set of K plus ttl, however often K is read in between.
C20_HitKeepsValueAndExpiry ==
  (last.op = "get" /\ last.result # Null) =>
    /\ Resident(cache, last.key)
    /\ MapGet(cache, last.key).value = MapGet(last.before, last.key).value
    /\ MapGet(cache, last.key).expiry = MapGet(last.before, last.key).expiry
    /\ MapGet(cache, last.key).expiry = last.was[last.key].at + ttl
    /\ last.result = last.was[last.key].value

\* A get, later than the set of its key, returned the value of a key that was
\* not the last key of the Map.
C20_Witness ==
  /\ last.op = "get"
  /\ last.result # Null
  /\ last.at > last.was[last.key].at
  /\ Len(last.before) >= 2
  /\ last.before[1].key = last.key

\* C11: no cache instance exists with a capacity <= 0 or with a ttl < 0: the
\* constructor rejects such arguments.
C11_NoInvalidInstance == maxEntries > 0 /\ ttl >= 0

\* C21: a set of a key that is not resident, into a Map that holds capacity
\* entries, removes the first key of the Map and nothing else, whether or
\* not that key has expired and whatever other entries have expired; expired
\* entries that were not read count toward the size.
C21_VictimIsFirstKeyWhateverExpired ==
  (last.op = "set" /\ ~Resident(last.before, last.key)
     /\ Len(last.before) = maxEntries /\ maxEntries > 0) =>
    /\ Removed = {last.before[1].key}
    /\ cache = Append(Tail(last.before),
                      [key |-> last.key, value |-> last.value,
                       expiry |-> last.at + ttl])

\* C22: a get of K adds no key, changes the value and the expiry of no
\* entry, keeps the keys other than K in their order, and removes no entry
\* but, at most, that of K.
C22_GetFrame ==
  last.op = "get" =>
    /\ KeySet(cache) \subseteq KeySet(last.before)
    /\ \A k \in KeySet(cache) :
         /\ MapGet(cache, k).value = MapGet(last.before, k).value
         /\ MapGet(cache, k).expiry = MapGet(last.before, k).expiry
    /\ MapKeys(MapDelete(cache, last.key)) = MapKeys(MapDelete(last.before, last.key))
    /\ Removed \subseteq {last.key}
    /\ Len(cache) >= Len(last.before) - 1

\* A get returned the value of the first key of the Map while another entry,
\* already expired, stayed resident behind it.
C22_Witness ==
  /\ last.op = "get"
  /\ last.result # Null
  /\ Len(last.before) >= 2
  /\ last.before[1].key = last.key
  /\ cache[Len(cache)].key = last.key
  /\ ExpiredAt(cache, last.at) # {}

\* ------------------------------------------------------------------------
\* Properties of the route handlers
\* ------------------------------------------------------------------------
ErrorStatus(route) == IF route = "detail" THEN 404 ELSE 500

\* C8: in both routes a request whose upstream fetch fails never calls
\* cache.set and is answered with an error (404 detail, 500 suggestions); the
\* entry of its key is as it was before the failure, so a key that had no
\* entry is still absent for a following cache.get.
C8_FailureIsNeverCached ==
  fin.failed # "no" =>
    /\ fin.sets = 0
    /\ fin.resp = ErrorResponse(ErrorStatus(fin.route))
    /\ fin.after = fin.before
    /\ fin.before = Null => LRUGet(cache, fin.key, now).result = Null

\* A detail request failed while its move fetches were pending, with no entry
\* for its key.
C8_Witness ==
  /\ fin.route = "detail"
  /\ fin.failed = "moves"
  /\ fin.calls = 3 + MoveLimit
  /\ fin.before = Null

HitServed ==
  fin.got # Null =>
    /\ fin.calls = 0
    /\ fin.sets = 0
    /\ fin.resp.status = 200
    /\ fin.resp.cached = "true"
    /\ fin.resp.of = fin.had

MissFetched ==
  (fin.looked /\ fin.got = Null) =>
    /\ fin.calls > 0
    /\ fin.failed = "no" =>
         /\ fin.sets = 1
         /\ fin.resp.status = 200
         /\ fin.resp.cached = "false"
         /\ fin.after # Null
         /\ fin.resp.of = fin.after.value

\* C9 as stated: for every request a hit is served from the cache with
\* cached: true and no upstream call, a miss fetches upstream, stores once and
\* answers cached: false, and the cached flag is true if and only if no
\* upstream call was made.
C9_Original ==
  fin.route # "none" =>
    /\ HitServed
    /\ MissFetched
    /\ (fin.resp.cached = "true") <=> (fin.calls = 0)

\* C9 as amended: the same for every request that reaches the cache lookup; a
\* detail request without a name is answered 400 with no lookup, no upstream
\* call and no cached flag.
C9_CachedIffNoUpstreamCall ==
  fin.route # "none" =>
    /\ HitServed
    /\ MissFetched
    /\ fin.looked => ((fin.resp.cached = "true") <=> (fin.calls = 0))
    /\ ~fin.looked => (fin.resp = ErrorResponse(400) /\ fin.calls = 0 /\ fin.sets = 0)

\* A detail request was served from the cache while another handler was
\* waiting for the upstream.
C9_Witness ==
  /\ fin.route = "detail"
  /\ fin.got # Null
  /\ fin.resp.cached = "true"
  /\ \E g \in Handlers : g.pc \in FetchStages

\* C10: when a request stores its response after a request that missed on the
\* same key concurrently has stored, the cache holds exactly one entry for the
\* key, with the value and the expiry of this later set; with no set of
\* another key between the two, the size is at most one more than before the
\* first of the two sets.
C10_LastWriteWins ==
  (fin.sets = 1 /\ fin.rival # "none") =>
    /\ fin.calls > 0
    /\ fin.count = 1
    /\ fin.after.value = fin.resp.of
    /\ fin.after.expiry = fin.setAt + ttl
    /\ fin.rival = "clean" => fin.size <= fin.rivalSize + 1

\* The later of two racing requests overwrote the entry of the earlier one
\* with another value and a later expiry.
C10_Witness ==
  /\ fin.sets = 1
  /\ fin.rival = "clean"
  /\ fin.before # Null
  /\ fin.before.value # fin.after.value
  /\ fin.before.expiry < fin.after.expiry
  /\ fin.size = fin.rivalSize + 1

\* C13: a detail request looks the cache up under the lower-cased name and
\* queries the upstream with the same lower-cased name, so that two names
\* that differ only in letter case use one key and one upstream identifier.
C13_CaseInsensitive ==
  fin.url # NoUrl =>
    /\ fin.key = ToLowerCase(fin.name)
    /\ fin.url = ToLowerCase(fin.name)

\* A step in which a suggestions request starts and is answered at once from
\* the cache, with cached: true, the stored value and no upstream call.
SuggestServedFromCache ==
  /\ fin'.route = "suggest"
  /\ fin'.got # Null
  /\ fin'.resp = HitResponse("names", ValueAt(cache, SuggestKey))
  /\ fin'.calls = 0
  /\ req' = req

\* A step in which a suggestions request starts and calls the upstream.
SuggestCallsUpstream ==
  \E g \in BagToSet(req') :
    /\ g.route = "suggest"
    /\ g.pc = "list"
    /\ g.calls = 1
    /\ req' = req (+) SetToBag({g})

SuggestStarts == SuggestServedFromCache \/ SuggestCallsUpstream

\* The name list entry is resident and its expiry has not passed.
SuggestFresh ==
  /\ MapHas(cache, SuggestKey)
  /\ now <= MapGet(cache, SuggestKey).expiry

\* C12 as stated: once a suggestions request has succeeded, every suggestions
\* request that starts later is served from the cache with cached: true and
\* makes no upstream call.
C12_Original ==
  [][(listed /\ SuggestStarts) => SuggestServedFromCache]_vars

\* C12 as amended: a suggestions request is served from the cache, with
\* cached: true and no upstream call, if and only if the name list entry is
\* resident and not expired when the request starts; otherwise it calls the
\* upstream again, also after an earlier suggestions request has succeeded.
C12_ServedWhileEntryFresh ==
  [][SuggestStarts => (SuggestServedFromCache <=> SuggestFresh)]_vars

\* After the name list was stored, a suggestions request was served from the
\* cache while the entry of a detail request was resident and a detail
\* handler was waiting for the upstream.
C12_Witness ==
  /\ listed
  /\ fin.route = "suggest"
  /\ fin.resp.cached = "true"
  /\ MapHas(cache, <<"p">>)
  /\ \E g \in Handlers : g.route = "detail" /\ g.pc \in DetailStages

\* The move fetches the handler of the completed request has started: the
\* upstream calls after those of the pokemon, species and evolution documents.
MoveFetches == IF fin.calls > 3 THEN fin.calls - 3 ELSE 0

\* C14: a detail request that misses the cache starts at most 20 move
\* fetches, those of the first 20 moves of the pokemon, and its response
\* holds exactly the moves it fetched.  (Both lists are cut from the front of
\* pokemon.moves, so each is given by its length.)
C14_FetchesFirstTwentyMoves ==
  (fin.route \in {"detail", "legacy"} /\ fin.calls > 0) =>
    /\ MoveFetches <= MoveLimit
    /\ fin.failed \in {"no", "moves"} => MoveFetches = Min(fin.nmoves, MoveLimit)
    /\ fin.failed = "no" => fin.resp.of.moves = MoveFetches

\* C23: a hit of the detail route returns a value the detail route stored,
\* and a hit of the suggestions route returns a value the suggestions route
\* stored, whatever the name of the request.
C23_RoutesReturnTheirOwnValues ==
  fin.got # Null =>
    /\ fin.route = "detail" => fin.got.kind = "pokemon"
    /\ fin.route = "suggest" => fin.got.kind = "names"

\* ------------------------------------------------------------------------
\* Properties of the Home page
\* ------------------------------------------------------------------------
\* C15: a lookup request that handleSearch starts, at once or by its timer,
\* starts at least THROTTLE_DELAY after the lookup request before it.
C15_LookupsThrottleDelayApart ==
  (look.kind = "start" /\ look.prev # 0) =>
    look.at - look.prev >= THROTTLE_DELAY

\* The timer started a lookup for a value typed inside the throttle window
\* of the lookup before it.
C15_Witness ==
  /\ look.kind = "start"
  /\ look.by = "timer"
  /\ look.prev # 0
  /\ look.typed - look.prev < THROTTLE_DELAY
  /\ look.at - look.prev >= THROTTLE_DELAY

\* C16: a lookup request for a typed value starts only after a waiting
\* period has elapsed since the input change that produced the value.
C16_LookupWaitsAfterInput ==
  look.kind = "start" => look.at - look.typed > 0

\* C17: after a lookup for the typed text T has failed, with T still the
\* search term, the error banner is shown if and only if the suggestions for
\* T are empty, and it then reads: No Pokemon found with the name "T".
C17_BannerIffNoMatches ==
  (variant = WithSuggestions /\ look.kind = "fail" /\ searchTerm = look.value) =>
    /\ BannerVisible <=> (suggestions = <<>>)
    /\ BannerVisible => error = NoPokemonFound(look.value)

\* C18: of the pill row, the Popular Searches section and the card at most
\* one is visible, and the pill row is visible only with a non-blank search
\* term, no pokemon and at least one suggestion.
C18_OneResultAreaAtMost ==
  /\ ~(PillsVisible /\ PopularVisible)
  /\ ~(PillsVisible /\ CardVisible)
  /\ ~(PopularVisible /\ CardVisible)
  /\ PillsVisible =>
       (Trim(searchTerm) # <<>> /\ pokemon = Null /\ Len(suggestions) > 0)

\* The pill row is visible while nothing is loading and no error is set, so
\* that only the search term hides the Popular Searches section.
C18_Witness ==
  /\ PillsVisible
  /\ ~loading
  /\ error = <<>>

\* The latest step was a call of handleSearch.
AfterHandleSearch == look.kind = "typed" \/ look.by = "immediate"

\* The elements of sub are elements of arr, in the order of arr.
RECURSIVE InOrderOf(_, _)
InOrderOf(sub, arr) ==
  IF sub = <<>> THEN TRUE
  ELSE IF arr = <<>> THEN FALSE
  ELSE IF Head(sub) = Head(arr) THEN InOrderOf(Tail(sub), Tail(arr))
  ELSE InOrderOf(sub, Tail(arr))

\* C19: after handleSearch(value) the suggestions are at most 8 names of the
\* loaded name list, in the order of the list, each starting with the
\* trimmed lower-cased value; there are none when that value is empty.
C19_SuggestionsArePrefixMatches ==
  (variant = WithSuggestions /\ AfterHandleSearch) =>
    LET normalized == Trim(ToLowerCase(searchTerm))
    IN /\ Len(suggestions) <= MaxSuggestions
       /\ InOrderOf(suggestions, allNames)
       /\ \A i \in DOMAIN suggestions : StartsWith(suggestions[i], normalized)
       /\ normalized = <<>> => suggestions = <<>>

\* handleSearch("P ") left 8 suggestions of a list that holds more matches
\* and a name that does not match among them.
C19_Witness ==
  /\ variant = WithSuggestions
  /\ AfterHandleSearch
  /\ searchTerm = <<"P", " ">>
  /\ Len(suggestions) = MaxSuggestions
  /\ Len(allNames) > MaxSuggestions + 1
  /\ \E i \in DOMAIN allNames : allNames[i] = <<"i", "a">>

\* C24: once no lookup is in flight and no timer is pending, what the page
\* shows is the result of the most recently issued request, which is the
\* request for searchTerm: the response that completed last is the response
\* for searchTerm, a displayed pokemon is the pokemon of searchTerm, and no
\* pokemon is displayed when searchTerm is blank.
Settled == lookups = EmptyBag /\ ~debounceTimer.pending

C24_ShowsLatestRequest ==
  Settled =>
    /\ look.kind \in {"ok", "fail"} => look.value = searchTerm
    /\ pokemon # Null => pokemon.name = ToLowerCase(searchTerm)
    /\ Trim(searchTerm) = <<>> => pokemon = Null

====
